---- MODULE Spec2Model ----
(***************************************************************************)
(* Site2QR: four client-rendered generator pages (poster, business card,   *)
(* banner, logo).  Each page holds React form state, an async handleSubmit *)
(* that captures the state of the render it was created in, and a          *)
(* handleDownload.  A mounted page is modelled; the pages share no state.  *)
(* Text is modelled by TLA+ strings, a canvas by the sequence of drawing   *)
(* operations issued on it, a PNG data URL by the canvas it was exported   *)
(* from.                                                                   *)
(***************************************************************************)
EXTENDS Integers, Sequences, FiniteSets, TLC

(* ------------------------------------------------------------------ *)
(* Bounds of the model                                                *)
(* ------------------------------------------------------------------ *)
MaxEdits == 2
MaxGen == 2
MaxDownloads == 1
MaxUploads == 1

(* ------------------------------------------------------------------ *)
(* Program constants                                                  *)
(* ------------------------------------------------------------------ *)
Pages == {"poster", "card", "banner", "logo"}

QR_SIZES == <<220, 260, 300, 340>>
DISPLAY_FONT == "Cinzel"
BODY_FONT == "Manrope"
POSTER_WIDTH == 1200
POSTER_HEIGHT == 800
CARD_WIDTH == 1050
CARD_HEIGHT == 600
BANNER_WIDTH == 1600
BANNER_HEIGHT == 600
LOGO_WIDTH == 1000
LOGO_HEIGHT == 600
DEFAULT_PRIMARY == "#D6B36C"
DEFAULT_ACCENT == "#4AA7A0"

\* Dimensions printed in the page header of each single-image page.
AdvertisedSize(p) ==
  CASE p = "card" -> <<1050, 600>>
    [] p = "banner" -> <<1600, 600>>
    [] p = "logo" -> <<1000, 600>>

CanvasSize(p) ==
  CASE p = "poster" -> <<POSTER_WIDTH, POSTER_HEIGHT>>
    [] p = "card" -> <<CARD_WIDTH, CARD_HEIGHT>>
    [] p = "banner" -> <<BANNER_WIDTH, BANNER_HEIGHT>>
    [] p = "logo" -> <<LOGO_WIDTH, LOGO_HEIGHT>>

ValidationError(p) ==
  CASE p = "poster" -> "Please enter a URL to generate posters."
    [] p = "card" -> "Please enter a website URL to generate a QR code."
    [] p = "banner" -> "Please enter a URL to embed in the banner QR code."
    [] p = "logo" -> ""

GenerationError(p) ==
  CASE p = "poster" -> "Could not generate branded posters. Please try again."
    [] p = "card" -> "Could not generate the business card. Please try again."
    [] p = "banner" -> "Could not generate the banner. Please try again."
    [] p = "logo" -> "Could not generate the logo. Please try again."

(* ------------------------------------------------------------------ *)
(* String helpers (String.prototype.trim, slice, toUpperCase, ...)    *)
(* ------------------------------------------------------------------ *)
WhiteSpace == {" ", "\t", "\n"}

Min(a, b) == IF a <= b THEN a ELSE b
Max(a, b) == IF a >= b THEN a ELSE b

CharAt(s, i) == SubSeq(s, i, i)

RECURSIVE TrimStart(_)
TrimStart(s) ==
  IF Len(s) > 0 /\ CharAt(s, 1) \in WhiteSpace
    THEN TrimStart(SubSeq(s, 2, Len(s)))
    ELSE s

RECURSIVE TrimEnd(_)
TrimEnd(s) ==
  IF Len(s) > 0 /\ CharAt(s, Len(s)) \in WhiteSpace
    THEN TrimEnd(SubSeq(s, 1, Len(s) - 1))
    ELSE s

trim(s) == TrimEnd(TrimStart(s))

LowerChars == "abcdefghijklmnopqrstuvwxyz"
UpperChars == "ABCDEFGHIJKLMNOPQRSTUVWXYZ"

UpperMap ==
  [c \in {CharAt(LowerChars, i) : i \in 1..26} |->
     CharAt(UpperChars, CHOOSE i \in 1..26 : CharAt(LowerChars, i) = c)]

LowerMap ==
  [c \in {CharAt(UpperChars, i) : i \in 1..26} |->
     CharAt(LowerChars, CHOOSE i \in 1..26 : CharAt(UpperChars, i) = c)]

UpperChar(c) == IF c \in DOMAIN UpperMap THEN UpperMap[c] ELSE c

LowerChar(c) == IF c \in DOMAIN LowerMap THEN LowerMap[c] ELSE c

RECURSIVE toUpperCase(_)
toUpperCase(s) ==
  IF Len(s) = 0 THEN ""
  ELSE UpperChar(CharAt(s, 1)) \o toUpperCase(SubSeq(s, 2, Len(s)))

truncateText(value, maxLength) ==
  IF Len(value) <= maxLength
    THEN value
    ELSE SubSeq(value, 1, maxLength - 3) \o "..."

\* value.trim() || fallback
\* value.trim() || fallback
OrDefaultBlank(value, fallback) == trim(value)

OrDefault(value, fallback) == IF trim(value) = "" THEN fallback ELSE trim(value)

\* First word of a string that starts with a non-space, and the rest.
RECURSIVE WordEnd(_, _)
WordEnd(s, i) ==
  IF i > Len(s) \/ CharAt(s, i) \in WhiteSpace THEN i - 1 ELSE WordEnd(s, i + 1)

RECURSIVE SplitWords(_)
SplitWords(s) ==
  LET t == TrimStart(s) IN
  IF t = "" THEN <<>>
  ELSE LET e == WordEnd(t, 1)
       IN <<SubSeq(t, 1, e)>> \o SplitWords(SubSeq(t, e + 1, Len(t)))

getInitials(value) ==
  LET trimmed == trim(value)
      words == SplitWords(trimmed)
      firstTwo == SubSeq(words, 1, Min(2, Len(words)))
  IN IF trimmed = "" THEN "QR"
     ELSE IF Len(firstTwo) = 1 THEN UpperChar(CharAt(firstTwo[1], 1))
     ELSE UpperChar(CharAt(firstTwo[1], 1)) \o UpperChar(CharAt(firstTwo[2], 1))

(* ------------------------------------------------------------------ *)
(* Colors                                                             *)
(* ------------------------------------------------------------------ *)
HexDigits == "0123456789ABCDEF"

\* Value of a hexadecimal digit, as Number.parseInt(_, 16) reads it.
HexMap ==
  [c \in {CharAt(HexDigits, i) : i \in 1..16} \cup {CharAt("abcdef", i) : i \in 1..6} |->
     (CHOOSE i \in 1..16 : CharAt(HexDigits, i) = UpperChar(c)) - 1]

IsHexChar(c) == c \in DOMAIN HexMap

HexVal(c) == HexMap[c]

\* /^#[0-9a-fA-F]{6}$/
hexPattern(s) ==
  /\ Len(s) = 7
  /\ CharAt(s, 1) = "#"
  /\ \A i \in 2..7 : IsHexChar(CharAt(s, i))

normalizeHex(value, fallback) ==
  LET trimmed == trim(value)
  IN IF hexPattern(trimmed) THEN toUpperCase(trimmed) ELSE fallback

hexToRgb(hex) ==
  LET clean == SubSeq(hex, 2, Len(hex))
      byte(i) == 16 * HexVal(CharAt(clean, i)) + HexVal(CharAt(clean, i + 1))
  IN [r |-> byte(1), g |-> byte(3), b |-> byte(5)]

rgbToHex(r, g, b) ==
  LET toHex(v) == CharAt(HexDigits, (v \div 16) + 1) \o CharAt(HexDigits, (v % 16) + 1)
  IN "#" \o toHex(r) \o toHex(g) \o toHex(b)

\* Math.round(a + (b - a) * amount), amount given in hundredths.
MixChannel(a, b, pct) == (2 * (100 * a + (b - a) * pct) + 100) \div 200

mixHex(first, second, pct) ==
  LET colorA == hexToRgb(first)
      colorB == hexToRgb(second)
  IN rgbToHex(MixChannel(colorA.r, colorB.r, pct),
              MixChannel(colorA.g, colorB.g, pct),
              MixChannel(colorA.b, colorB.b, pct))

buildTemplates(primary, accent) ==
  LET baseDark == "#0B0B10"
      baseLight == "#F7F3EA"
  IN <<
    [id |-> "gilt", name |-> "Gilt Plaque",
     description |-> "Classic dark board with gold framing.",
     cta |-> "Connect with us",
     palette |-> [background |-> baseDark,
                  backgroundAlt |-> mixHex(baseDark, primary, 12),
                  frame |-> mixHex(primary, "#FFFFFF", 25),
                  text |-> "#F8F4E6",
                  muted |-> mixHex("#F8F4E6", "#9CA3AF", 25),
                  accent |-> primary,
                  glow |-> mixHex(primary, "#FFFFFF", 35),
                  card |-> "#FDF8EE",
                  cardBorder |-> mixHex(primary, "#FFFFFF", 35),
                  qrDark |-> mixHex(primary, "#101010", 40),
                  qrLight |-> "#FFFFFF"]],
    [id |-> "noir", name |-> "Noir Accent",
     description |-> "Deep tones with bold accent energy.",
     cta |-> "Scan the code",
     palette |-> [background |-> mixHex(baseDark, accent, 8),
                  backgroundAlt |-> mixHex("#111827", accent, 16),
                  frame |-> mixHex(accent, "#FFFFFF", 22),
                  text |-> "#F3F4F6",
                  muted |-> mixHex("#F3F4F6", "#94A3B8", 35),
                  accent |-> accent,
                  glow |-> mixHex(accent, "#FFFFFF", 28),
                  card |-> mixHex("#F8FAFC", accent, 8),
                  cardBorder |-> mixHex(accent, "#FFFFFF", 35),
                  qrDark |-> mixHex(accent, "#0F172A", 50),
                  qrLight |-> "#FFFFFF"]],
    [id |-> "ivory", name |-> "Ivory Studio",
     description |-> "Light premium layout with soft framing.",
     cta |-> "Your link, beautifully",
     palette |-> [background |-> baseLight,
                  backgroundAlt |-> mixHex(baseLight, primary, 10),
                  frame |-> mixHex(primary, "#000000", 20),
                  text |-> "#1F2937",
                  muted |-> mixHex("#1F2937", "#6B7280", 55),
                  accent |-> accent,
                  glow |-> mixHex(accent, "#FFFFFF", 35),
                  card |-> "#FFFFFF",
                  cardBorder |-> mixHex(primary, "#FFFFFF", 50),
                  qrDark |-> mixHex(primary, "#111827", 40),
                  qrLight |-> "#FFFFFF"]]
  >>

(* ------------------------------------------------------------------ *)
(* Canvas: a canvas is the sequence of operations issued on its 2D    *)
(* context; every operation is a tuple <<name, arguments...>>.        *)
(* ------------------------------------------------------------------ *)
TWO_PI == "Math.PI*2"

\* ctx.measureText(text).width: the browser's font metric, a fixed function
\* of the text and the font in effect.
MeasureText(text, fontWeight, size, fontFamily) == (Len(text) * size * 6) \div 10

FontOp(fontWeight, size, fontFamily) == <<"font", fontWeight, size, fontFamily>>

drawRoundedRect(x, y, width, height, radius) ==
  LET safeRadius == Min(radius, Min(width \div 2, height \div 2))
  IN << <<"beginPath">>,
        <<"moveTo", x + safeRadius, y>>,
        <<"lineTo", x + width - safeRadius, y>>,
        <<"quadraticCurveTo", x + width, y, x + width, y + safeRadius>>,
        <<"lineTo", x + width, y + height - safeRadius>>,
        <<"quadraticCurveTo", x + width, y + height, x + width - safeRadius, y + height>>,
        <<"lineTo", x + safeRadius, y + height>>,
        <<"quadraticCurveTo", x, y + height, x, y + height - safeRadius>>,
        <<"lineTo", x, y + safeRadius>>,
        <<"quadraticCurveTo", x, y, x + safeRadius, y>>,
        <<"closePath">> >>

\* The while (size > 14) loop of drawFittedText: the fonts it sets.
RECURSIVE FitLoop(_, _, _, _, _)
FitLoop(text, maxWidth, size, fontFamily, fontWeight) ==
  IF size > 14
    THEN <<FontOp(fontWeight, size, fontFamily)>> \o
         (IF MeasureText(text, fontWeight, size, fontFamily) <= maxWidth
            THEN <<>>
            ELSE FitLoop(text, maxWidth, size - 2, fontFamily, fontWeight))
    ELSE <<>>

\* drawFittedText of the poster page (always centered).
drawFittedTextPoster(text, maxWidth, fontSize, fontFamily, fontWeight, x, y, color) ==
  << <<"textAlign", "center">>, <<"fillStyle", color>> >>
  \o FitLoop(text, maxWidth, fontSize, fontFamily, fontWeight)
  \o << <<"fillText", text, x, y>> >>

\* drawFittedText of the card, banner and logo pages.
drawFittedText(text, maxWidth, fontSize, fontFamily, fontWeight, x, y, color, align) ==
  << <<"textAlign", align>>, <<"textBaseline", "alphabetic">>, <<"fillStyle", color>> >>
  \o FitLoop(text, maxWidth, fontSize, fontFamily, fontWeight)
  \o << <<"fillText", text, x, y>> >>

\* loadImage(src) resolves with an image element of that source; null is the
\* absent logo.  URL.createObjectURL yields a fresh blob URL.
NoUrl == <<"null">>
BlobUrl(n) == <<"blob", n>>
NoImage == <<"null">>
Image(src) == <<"image", src>>
IsImage(img) == img[1] = "image"

\* toDataURL of the qrcode package: the bitmap is determined by the text and
\* the options passed.
QrEncode(text, width, margin, dark, light) == <<"qr", text, width, margin, dark, light>>
QrText(qrDataUrl) == qrDataUrl[2]
QrWidth(qrDataUrl) == qrDataUrl[3]

\* canvas.toDataURL("image/png"): the last call on the canvas; the data URL
\* is determined by the canvas size and everything drawn before the call.
ExportOp == <<"toDataURL", "image/png">>
PngOf(canvas) == [type |-> "image/png", width |-> canvas.width,
                  height |-> canvas.height, ops |-> Append(canvas.ops, ExportOp)]

(* ---------------- poster: createPoster ---------------- *)
PosterCardGeometryTight(qrSize) ==
  [cardWidth |-> qrSize + 40, cardHeight |-> qrSize + 40,
   cardX |-> (POSTER_WIDTH - (qrSize + 40)) \div 2, cardY |-> 260]

PosterCardGeometry(qrSize) ==
  LET cardWidth == qrSize + 90
      cardHeight == qrSize + 90
  IN [cardWidth |-> cardWidth, cardHeight |-> cardHeight,
      cardX |-> (POSTER_WIDTH - cardWidth) \div 2, cardY |-> 260]

PosterLogoOps(payload) ==
  LET logoSize == 88
      logoX == 110
      logoY == 110
  IN IF IsImage(payload.logoImage)
       THEN << <<"save">>, <<"beginPath">>,
               <<"arc", logoX, logoY, logoSize \div 2, 0, TWO_PI>>,
               <<"closePath">>, <<"clip">>,
               <<"drawImage", payload.logoImage, logoX - logoSize \div 2,
                 logoY - logoSize \div 2, logoSize, logoSize>>,
               <<"restore">>,
               <<"strokeStyle", payload.template.palette.frame>>,
               <<"lineWidth", 3>>, <<"beginPath">>,
               <<"arc", logoX, logoY, logoSize \div 2 + 3, 0, TWO_PI>>,
               <<"stroke">> >>
       ELSE <<>>

\* createPoster up to the await of loadImage(qrDataUrl).
PosterDrawBefore(payload) ==
  LET palette == payload.template.palette
      g == PosterCardGeometry(payload.qrSize)
  IN << <<"createLinearGradient", 0, 0, POSTER_WIDTH, POSTER_HEIGHT>>,
        <<"addColorStop", 0, palette.background>>,
        <<"addColorStop", 1, palette.backgroundAlt>>,
        <<"fillStyle", "gradient">>,
        <<"fillRect", 0, 0, POSTER_WIDTH, POSTER_HEIGHT>>,
        <<"save">>, <<"globalAlpha", 35>>, <<"fillStyle", palette.glow>>,
        <<"beginPath">>,
        <<"ellipse", (POSTER_WIDTH * 82) \div 100, (POSTER_HEIGHT * 18) \div 100,
          190, 120, 0, 0, TWO_PI>>,
        <<"fill">>, <<"restore">>,
        <<"save">>, <<"globalAlpha", 20>>, <<"fillStyle", palette.accent>>,
        <<"beginPath">>,
        <<"ellipse", (POSTER_WIDTH * 18) \div 100, (POSTER_HEIGHT * 86) \div 100,
          220, 140, 0, 0, TWO_PI>>,
        <<"fill">>, <<"restore">>,
        <<"lineWidth", 6>>, <<"strokeStyle", palette.frame>>,
        <<"strokeRect", 28, 28, POSTER_WIDTH - 56, POSTER_HEIGHT - 56>>,
        <<"lineWidth", 2>>, <<"strokeStyle", "rgba(255, 255, 255, 0.12)">>,
        <<"strokeRect", 52, 52, POSTER_WIDTH - 104, POSTER_HEIGHT - 104>> >>
     \o PosterLogoOps(payload)
     \o drawFittedTextPoster(payload.brandName, POSTER_WIDTH - 200, 48,
                             DISPLAY_FONT, 700, POSTER_WIDTH \div 2, 128, palette.text)
     \o drawFittedTextPoster(payload.tagline, POSTER_WIDTH - 240, 22,
                             BODY_FONT, 500, POSTER_WIDTH \div 2, 162, palette.muted)
     \o << FontOp(600, 26, DISPLAY_FONT), <<"textAlign", "center">>,
           <<"fillStyle", palette.accent>>,
           <<"fillText", payload.template.cta, POSTER_WIDTH \div 2, 220>> >>
     \o drawRoundedRect(g.cardX, g.cardY, g.cardWidth, g.cardHeight, 28)
     \o << <<"fillStyle", palette.card>>, <<"fill">>,
           <<"lineWidth", 3>>, <<"strokeStyle", palette.cardBorder>>, <<"stroke">> >>

\* createPoster after loadImage(qrDataUrl) resolved, up to the export.
PosterDrawAfter(payload, qrImage) ==
  LET palette == payload.template.palette
      g == PosterCardGeometry(payload.qrSize)
      displayUrl == truncateText(payload.url, 52)
  IN << <<"drawImage", qrImage, g.cardX + 45, g.cardY + 45, payload.qrSize, payload.qrSize>>,
        FontOp(500, 20, BODY_FONT), <<"fillStyle", palette.muted>>,
        <<"textAlign", "center">>,
        <<"fillText", displayUrl, POSTER_WIDTH \div 2, g.cardY + g.cardHeight + 50>>,
        FontOp(600, 18, BODY_FONT), <<"fillStyle", palette.text>>,
        <<"fillText", payload.template.name, POSTER_WIDTH \div 2, POSTER_HEIGHT - 62>> >>

(* ---------------- business card: createBusinessCard ---------------- *)
CardGeometry ==
  LET panelX == 70
      panelY == 70
      panelWidth == CARD_WIDTH - 140
      panelHeight == CARD_HEIGHT - 140
      rightWidth == 300
      rightX == panelX + panelWidth - rightWidth
      qrSize == 200
  IN [panelX |-> panelX, panelY |-> panelY, panelWidth |-> panelWidth,
      panelHeight |-> panelHeight, rightWidth |-> rightWidth, rightX |-> rightX,
      textX |-> panelX + 90, textWidth |-> rightX - (panelX + 90) - 40,
      markSize |-> 58, markX |-> panelX + 90, markY |-> panelY + 95,
      qrSize |-> qrSize, qrX |-> rightX + (rightWidth - qrSize) \div 2,
      qrY |-> panelY + 90]

CardDrawBefore(payload) ==
  LET g == CardGeometry
  IN << <<"createLinearGradient", 0, 0, CARD_WIDTH, CARD_HEIGHT>>,
        <<"addColorStop", 0, "#0B0B10">>,
        <<"addColorStop", 1, payload.primary>>,
        <<"fillStyle", "gradient">>,
        <<"fillRect", 0, 0, CARD_WIDTH, CARD_HEIGHT>>,
        <<"save">>, <<"globalAlpha", 30>>, <<"fillStyle", payload.accent>>,
        <<"beginPath">>,
        <<"ellipse", (CARD_WIDTH * 82) \div 100, (CARD_HEIGHT * 20) \div 100,
          240, 140, 0, 0, TWO_PI>>,
        <<"fill">>, <<"restore">> >>
     \o drawRoundedRect(g.panelX, g.panelY, g.panelWidth, g.panelHeight, 36)
     \o << <<"fillStyle", "#F9F6EF">>, <<"fill">>,
           <<"lineWidth", 3>>, <<"strokeStyle", payload.accent>>, <<"stroke">>,
           <<"save">> >>
     \o drawRoundedRect(g.panelX, g.panelY, g.panelWidth, g.panelHeight, 36)
     \o << <<"clip">>, <<"fillStyle", "rgba(15, 23, 42, 0.06)">>,
           <<"fillRect", g.rightX, g.panelY, g.rightWidth, g.panelHeight>>,
           <<"restore">>,
           <<"fillStyle", payload.accent>>, <<"beginPath">>,
           <<"arc", g.markX, g.markY, g.markSize \div 2, 0, TWO_PI>>,
           <<"fill">>,
           <<"fillStyle", "#0B0B10">>, FontOp(700, 24, DISPLAY_FONT),
           <<"textAlign", "center">>, <<"textBaseline", "middle">>,
           <<"fillText", getInitials(payload.brandName), g.markX, g.markY + 1>>,
           <<"textAlign", "left">>, <<"textBaseline", "alphabetic">>,
           FontOp(600, 16, BODY_FONT), <<"fillStyle", "#0F172A">>,
           <<"fillText", payload.brandName, g.markX + 50, g.panelY + 102>> >>
     \o drawFittedText(payload.fullName, g.textWidth, 44, DISPLAY_FONT, 700,
                       g.textX, g.panelY + 175, "#0F172A", "left")
     \o << FontOp(500, 20, BODY_FONT), <<"fillStyle", "#475569">>,
           <<"fillText", payload.role, g.textX, g.panelY + 210>>,
           <<"strokeStyle", "rgba(15, 23, 42, 0.15)">>, <<"lineWidth", 1>>,
           <<"beginPath">>, <<"moveTo", g.textX, g.panelY + 232>>,
           <<"lineTo", g.rightX - 40, g.panelY + 232>>, <<"stroke">>,
           FontOp(500, 18, BODY_FONT), <<"fillStyle", "#0F172A">>,
           <<"fillText", payload.email, g.textX, g.panelY + 270>>,
           <<"fillStyle", "#475569">>,
           <<"fillText", payload.phone, g.textX, g.panelY + 300>>,
           <<"fillText", payload.website, g.textX, g.panelY + 330>> >>
     \o drawRoundedRect(g.qrX - 18, g.qrY - 18, g.qrSize + 36, g.qrSize + 36, 24)
     \o << <<"fillStyle", "#FFFFFF">>, <<"fill">>,
           <<"strokeStyle", "rgba(15, 23, 42, 0.12)">>, <<"lineWidth", 2>>,
           <<"stroke">> >>

CardDrawAfterNoQr(payload, qrImage) ==
  LET g == CardGeometry
  IN << FontOp(600, 14, BODY_FONT), <<"fillStyle", "#0F172A">>,
        <<"textAlign", "center">>,
        <<"fillText", "Scan for contact", g.rightX + g.rightWidth \div 2,
          g.qrY + g.qrSize + 40>> >>

CardDrawAfter(payload, qrImage) ==
  LET g == CardGeometry
  IN << <<"drawImage", qrImage, g.qrX, g.qrY, g.qrSize, g.qrSize>>,
        FontOp(600, 14, BODY_FONT), <<"fillStyle", "#0F172A">>,
        <<"textAlign", "center">>,
        <<"fillText", "Scan for contact", g.rightX + g.rightWidth \div 2,
          g.qrY + g.qrSize + 40>> >>

(* ---------------- banner: createBanner ---------------- *)
BannerGeometry ==
  LET leftX == 120
      rightWidth == 320
      rightX == BANNER_WIDTH - rightWidth - 120
      qrSize == 200
  IN [leftX |-> leftX, rightWidth |-> rightWidth, rightX |-> rightX,
      leftWidth |-> rightX - leftX - 20,
      cardX |-> rightX, cardY |-> 130, cardWidth |-> rightWidth, cardHeight |-> 340,
      qrSize |-> qrSize, qrX |-> rightX + (rightWidth - qrSize) \div 2,
      qrY |-> 130 + 50]

BannerDrawBefore(payload) ==
  LET g == BannerGeometry
      ctaWidth == MeasureText(payload.cta, 600, 18, BODY_FONT) + 56
      ctaHeight == 50
      ctaY == 350
  IN << <<"createLinearGradient", 0, 0, BANNER_WIDTH, BANNER_HEIGHT>>,
        <<"addColorStop", 0, "#0B0B10">>,
        <<"addColorStop", 1, payload.primary>>,
        <<"fillStyle", "gradient">>,
        <<"fillRect", 0, 0, BANNER_WIDTH, BANNER_HEIGHT>>,
        <<"save">>, <<"globalAlpha", 30>>, <<"fillStyle", payload.accent>>,
        <<"beginPath">>,
        <<"ellipse", (BANNER_WIDTH * 85) \div 100, (BANNER_HEIGHT * 20) \div 100,
          260, 160, 0, 0, TWO_PI>>,
        <<"fill">>, <<"restore">>,
        <<"save">>, <<"globalAlpha", 20>>, <<"fillStyle", payload.primary>>,
        <<"beginPath">>,
        <<"ellipse", (BANNER_WIDTH * 18) \div 100, (BANNER_HEIGHT * 82) \div 100,
          320, 180, 0, 0, TWO_PI>>,
        <<"fill">>, <<"restore">>,
        <<"lineWidth", 4>>, <<"strokeStyle", "rgba(255, 255, 255, 0.18)">>,
        <<"strokeRect", 28, 28, BANNER_WIDTH - 56, BANNER_HEIGHT - 56>>,
        <<"lineWidth", 1>>, <<"strokeStyle", "rgba(255, 255, 255, 0.08)">>,
        <<"strokeRect", 50, 50, BANNER_WIDTH - 100, BANNER_HEIGHT - 100>>,
        FontOp(600, 16, BODY_FONT), <<"textAlign", "left">>,
        <<"textBaseline", "alphabetic">>,
        <<"fillStyle", "rgba(248, 244, 230, 0.7)">>,
        <<"fillText", payload.brandName, g.leftX, 140>> >>
     \o drawFittedText(payload.headline, g.leftWidth, 60, DISPLAY_FONT, 700,
                       g.leftX, 230, "#F8F4E6", "left")
     \o drawFittedText(payload.subheadline, g.leftWidth, 26, BODY_FONT, 500,
                       g.leftX, 300, "rgba(248, 244, 230, 0.75)", "left")
     \o << FontOp(600, 18, BODY_FONT) >>
     \o drawRoundedRect(g.leftX, ctaY, ctaWidth, ctaHeight, 999)
     \o << <<"fillStyle", payload.accent>>, <<"fill">>,
           <<"fillStyle", "#0B0B10">>, <<"textAlign", "left">>,
           <<"textBaseline", "middle">>,
           <<"fillText", payload.cta, g.leftX + 28, ctaY + ctaHeight \div 2>> >>
     \o drawFittedText(payload.url, g.leftWidth, 16, BODY_FONT, 500,
                       g.leftX, BANNER_HEIGHT - 80, "rgba(248, 244, 230, 0.6)", "left")
     \o drawRoundedRect(g.cardX, g.cardY, g.cardWidth, g.cardHeight, 28)
     \o << <<"fillStyle", "#F8F4E6">>, <<"fill">>,
           <<"lineWidth", 2>>, <<"strokeStyle", "rgba(255, 255, 255, 0.2)">>,
           <<"stroke">> >>

BannerDrawAfter(payload, qrImage) ==
  LET g == BannerGeometry
  IN << <<"drawImage", qrImage, g.qrX, g.qrY, g.qrSize, g.qrSize>>,
        FontOp(600, 14, BODY_FONT), <<"fillStyle", "#0F172A">>,
        <<"textAlign", "center">>, <<"textBaseline", "alphabetic">>,
        <<"fillText", "Scan to visit", g.cardX + g.cardWidth \div 2,
          g.cardY + g.cardHeight - 40>> >>

(* ---------------- logo: createLogo ---------------- *)
LogoDraw(payload) ==
  LET light == payload.tone = "light"
      background == IF light THEN "#F9F6EF" ELSE "#0B0B10"
      textColor == IF light THEN "#0F172A" ELSE "#F8F4E6"
      mutedColor == IF light THEN "rgba(15, 23, 42, 0.6)" ELSE "rgba(248, 244, 230, 0.7)"
      markText == IF light THEN "#0B0B10" ELSE "#F8F4E6"
      strokeColor == IF light THEN "rgba(15, 23, 42, 0.15)" ELSE "rgba(248, 244, 230, 0.2)"
      initials == getInitials(payload.brandName)
      markSize == 180
      horizontal == payload.layout = "horizontal"
      markX == IF horizontal THEN 220 ELSE LOGO_WIDTH \div 2
      markY == IF horizontal THEN LOGO_HEIGHT \div 2 ELSE 220
      textX == markX + markSize \div 2 + 60
      textWidth == LOGO_WIDTH - textX - 80
      mark == << <<"fillStyle", "markGradient">>, <<"beginPath">>,
                 <<"arc", markX, markY, markSize \div 2, 0, TWO_PI>>,
                 <<"fill">>, <<"lineWidth", 6>>, <<"strokeStyle", strokeColor>>,
                 <<"stroke">>, <<"fillStyle", markText>>,
                 FontOp(700, 64, DISPLAY_FONT), <<"textAlign", "center">>,
                 <<"textBaseline", "middle">>,
                 <<"fillText", initials, markX, markY + 2>> >>
      taglineOps(align, x, y) ==
        IF payload.tagline # ""
          THEN << FontOp(500, 20, BODY_FONT), <<"fillStyle", mutedColor>>,
                  <<"textAlign", align>>, <<"textBaseline", "alphabetic">>,
                  <<"fillText", payload.tagline, x, y>> >>
          ELSE <<>>
  IN << <<"fillStyle", background>>,
        <<"fillRect", 0, 0, LOGO_WIDTH, LOGO_HEIGHT>>,
        <<"save">>, <<"globalAlpha", IF light THEN 20 ELSE 15>>,
        <<"fillStyle", payload.accent>>, <<"beginPath">>,
        <<"ellipse", (LOGO_WIDTH * 75) \div 100, (LOGO_HEIGHT * 20) \div 100,
          220, 140, 0, 0, TWO_PI>>,
        <<"fill">>, <<"restore">>,
        <<"createLinearGradient", 0, 0, markSize, markSize>>,
        <<"addColorStop", 0, payload.accent>>,
        <<"addColorStop", 1, payload.primary>> >>
     \o mark
     \o (IF horizontal
           THEN drawFittedText(payload.brandName, textWidth, 56, DISPLAY_FONT, 700,
                               textX, LOGO_HEIGHT \div 2 - 10, textColor, "left")
                \o taglineOps("left", textX, LOGO_HEIGHT \div 2 + 26)
           ELSE drawFittedText(payload.brandName, LOGO_WIDTH - 160, 58, DISPLAY_FONT, 700,
                               LOGO_WIDTH \div 2, 360, textColor, "center")
                \o taglineOps("center", LOGO_WIDTH \div 2, 392))

(* ------------------------------------------------------------------ *)
(* Number(size) and the clamp of handleSubmit                         *)
(* ------------------------------------------------------------------ *)
Digits == "0123456789"

DigitMap ==
  [c \in {CharAt(Digits, i) : i \in 1..10} |->
     (CHOOSE i \in 1..10 : CharAt(Digits, i) = c) - 1]

IsDigit(c) == c \in DOMAIN DigitMap
DigitVal(c) == DigitMap[c]

RECURSIVE DigitsVal(_)
DigitsVal(s) ==
  IF Len(s) = 0 THEN 0
  ELSE 10 * DigitsVal(SubSeq(s, 1, Len(s) - 1)) + DigitVal(CharAt(s, Len(s)))

\* Number(s) on optionally signed decimal integers, surrounded by white
\* space; blank text is 0 and any other text is NaN.
Number(s) ==
  LET t == trim(s)
      signed == t # "" /\ CharAt(t, 1) \in {"-", "+"}
      d == IF signed THEN SubSeq(t, 2, Len(t)) ELSE t
  IN IF t = "" THEN [nan |-> FALSE, val |-> 0]
     ELSE IF d # "" /\ \A i \in 1..Len(d) : IsDigit(CharAt(d, i))
       THEN [nan |-> FALSE,
             val |-> IF signed /\ CharAt(t, 1) = "-" THEN 0 - DigitsVal(d) ELSE DigitsVal(d)]
       ELSE [nan |-> TRUE, val |-> 0]

\* const qrSize without the clamp
ResolveQrSizeUnclamped(size) ==
  LET n == Number(size)
  IN IF n.nan \/ n.val = 0 THEN 260 ELSE n.val

\* Math.min(Math.max(Number(size) || 260, 200), 360)
ResolveQrSize(size) ==
  LET n == Number(size)
      v == IF n.nan \/ n.val = 0 THEN 260 ELSE n.val
  IN Min(Max(v, 200), 360)

(* ------------------------------------------------------------------ *)
(* Page state                                                         *)
(* ------------------------------------------------------------------ *)
VARIABLES
  page,       \* the mounted page
  form,       \* the useState text/color/select fields of the page
  logoUrl,    \* poster page: object URL of the uploaded logo, or NoUrl
  revoked,    \* object URLs revoked so far
  uploads,    \* object URLs created so far
  stored,     \* posters / cardUrl / bannerUrl / logoUrl: the stored results
  loading,
  error,
  runs,       \* the handleSubmit invocations so far, by generation number
  storedGen,  \* generation that wrote `stored`
  outcome,    \* how the last handleSubmit to return or settle ended
  memo,       \* first successful generation: its closure state and result
  downloads,  \* links clicked by handleDownload
  edits       \* number of field edits and uploads so far

vars == <<page, form, logoUrl, revoked, uploads, stored, loading, error, runs,
          storedGen, outcome, memo, downloads, edits>>

formVars == <<form, logoUrl, revoked, uploads, edits>>

UrlField(p) == IF p = "card" THEN "website" ELSE "url"
HasUrl(p) == p # "logo"

InitialForm(p) ==
  CASE p = "poster" ->
         [url |-> "", brandName |-> "Site2QR Studio", tagline |-> "Scan to connect",
          primaryColor |-> DEFAULT_PRIMARY, accentColor |-> DEFAULT_ACCENT,
          size |-> ToString(QR_SIZES[2])]
    [] p = "card" ->
         [brandName |-> "Site2QR Studio", fullName |-> "Avery Bloom",
          role |-> "Creative Director", email |-> "hello@site2qr.com",
          phone |-> "+1 (212) 555-0190", website |-> "https://site2qr.com",
          primaryColor |-> DEFAULT_PRIMARY, accentColor |-> DEFAULT_ACCENT]
    [] p = "banner" ->
         [brandName |-> "Site2QR Studio", headline |-> "Instant QR banners",
          subheadline |-> "Turn walk-bys into visitors with a scannable banner.",
          cta |-> "Scan to explore", url |-> "https://site2qr.com",
          primaryColor |-> DEFAULT_PRIMARY, accentColor |-> DEFAULT_ACCENT]
    [] p = "logo" ->
         [brandName |-> "Site2QR", tagline |-> "Scan. Share. Shine.",
          layout |-> "horizontal", tone |-> "light",
          primaryColor |-> DEFAULT_PRIMARY, accentColor |-> DEFAULT_ACCENT]

\* Values the user types or picks, per field.
LongUrl == "https://example.com/a/very/long/path/that/exceeds/fifty-two/chars"
UrlInputs == {"", " \t ", " https://a.io\t", "  " \o LongUrl \o "\n"}
TextInputs == {"  "}
ColorInputs == {"#ff8800"}

EditValues(p, f) ==
  CASE f = UrlField(p) /\ HasUrl(p) -> UrlInputs
    [] f \in {"primaryColor", "accentColor"} -> ColorInputs
    [] f = "size" -> {ToString(QR_SIZES[i]) : i \in 1..Len(QR_SIZES)}
    [] f = "layout" -> {"horizontal", "stacked"}
    [] f = "tone" -> {"light", "dark"}
    [] OTHER -> TextInputs

\* What one render of the page provides to the handlers it creates: the
\* state values, the normalized colors and (poster page) the memoised templates.
Render(p, f, logo) ==
  LET normalizedPrimary == normalizeHex(f.primaryColor, DEFAULT_PRIMARY)
      normalizedAccent == normalizeHex(f.accentColor, DEFAULT_ACCENT)
  IN [form |-> f, logoUrl |-> logo,
      normalizedPrimary |-> normalizedPrimary,
      normalizedAccent |-> normalizedAccent,
      templates |-> IF p = "poster"
                      THEN buildTemplates(normalizedPrimary, normalizedAccent)
                      ELSE <<>>]

\* Number of images one generation produces: templates.map on the poster page.
TaskCount(p) == IF p = "poster" THEN 3 ELSE 1

NoQr == <<"none">>
NoCanvas == [width |-> 0, height |-> 0, ops |-> <<>>]
NoPng == [type |-> "none", width |-> 0, height |-> 0, ops |-> <<>>]

NoPayload == <<>>

\* A task before its first await settles: the canvas does not exist yet.
NewTaskEagerCanvas(p) ==
  [pc |-> IF HasUrl(p) THEN "qr" ELSE "create", qr |-> NoQr, payload |-> NoPayload,
   canvas |-> [width |-> CanvasSize(p)[1], height |-> CanvasSize(p)[2], ops |-> <<>>],
   out |-> NoPng]

NewTask(p) == [pc |-> IF HasUrl(p) THEN "qr" ELSE "create",
               qr |-> NoQr, payload |-> NoPayload, canvas |-> NoCanvas, out |-> NoPng]
NoTasks == [i \in {} |-> NewTask("poster")]

NoSnap == [form |-> <<>>, logoUrl |-> NoUrl, normalizedPrimary |-> "",
           normalizedAccent |-> "", templates |-> <<>>]

\* Number of generations started.
gen == Len(runs)

\* The state a handleSubmit closure reads: the render it was created in.
HandlerScopeLive(g) == Render(page, form, logoUrl)

HandlerScope(g) == runs[g].snap

(* ------------------------------------------------------------------ *)
(* Payloads passed to the create* functions                           *)
(* ------------------------------------------------------------------ *)
\* const trimmedUrl = url.trim()
TrimmedUrlRaw(p, s) == s.form[UrlField(p)]

TrimmedUrl(p, s) == trim(s.form[UrlField(p)])

\* if (!trimmedUrl): the URL check of the poster, card and banner pages.
UrlMissingNoTrim(p, f) == HasUrl(p) /\ f[UrlField(p)] = ""

UrlMissing(p, f) == HasUrl(p) /\ trim(f[UrlField(p)]) = ""

QrOptions(p, s, i) ==
  IF p = "poster"
    THEN [width |-> ResolveQrSize(s.form.size), margin |-> 1,
          dark |-> s.templates[i].palette.qrDark,
          light |-> s.templates[i].palette.qrLight]
    ELSE [width |-> 240, margin |-> 1, dark |-> "#0F172A", light |-> "#FFFFFF"]

Payload(p, s, i, qrDataUrl, img) ==
  CASE p = "poster" ->
         [template |-> s.templates[i],
          brandName |-> OrDefault(s.form.brandName, "Your Brand"),
          tagline |-> OrDefault(s.form.tagline, "Scan to connect"),
          url |-> TrimmedUrl(p, s),
          qrSize |-> ResolveQrSize(s.form.size),
          qrDataUrl |-> qrDataUrl,
          logoImage |-> img]
    [] p = "card" ->
         [brandName |-> OrDefault(s.form.brandName, "Your Brand"),
          fullName |-> OrDefault(s.form.fullName, "Your Name"),
          role |-> OrDefault(s.form.role, "Role"),
          email |-> OrDefault(s.form.email, "hello@yourbrand.com"),
          phone |-> OrDefault(s.form.phone, "+1 (555) 555-5555"),
          website |-> TrimmedUrl(p, s),
          primary |-> s.normalizedPrimary,
          accent |-> s.normalizedAccent,
          qrDataUrl |-> qrDataUrl]
    [] p = "banner" ->
         [brandName |-> OrDefault(s.form.brandName, "Your Brand"),
          headline |-> OrDefault(s.form.headline, "Your headline"),
          subheadline |-> OrDefault(s.form.subheadline, "Your banner subheadline"),
          cta |-> OrDefault(s.form.cta, "Scan now"),
          url |-> TrimmedUrl(p, s),
          primary |-> s.normalizedPrimary,
          accent |-> s.normalizedAccent,
          qrDataUrl |-> qrDataUrl]
    [] p = "logo" ->
         [brandName |-> OrDefault(s.form.brandName, "Your Brand"),
          tagline |-> trim(s.form.tagline),
          primary |-> s.normalizedPrimary,
          accent |-> s.normalizedAccent,
          layout |-> s.form.layout,
          tone |-> s.form.tone]

\* document.createElement("canvas") with the page's fixed width and height.
NewCanvasSwapped(p) == [width |-> CanvasSize(p)[2], height |-> CanvasSize(p)[1], ops |-> <<>>]

NewCanvas(p) == [width |-> CanvasSize(p)[1], height |-> CanvasSize(p)[2], ops |-> <<>>]

DrawBefore(p, payload) ==
  CASE p = "poster" -> PosterDrawBefore(payload)
    [] p = "card" -> CardDrawBefore(payload)
    [] p = "banner" -> BannerDrawBefore(payload)
    [] p = "logo" -> LogoDraw(payload)

DrawAfter(p, payload, qrImage) ==
  CASE p = "poster" -> PosterDrawAfter(payload, qrImage)
    [] p = "card" -> CardDrawAfter(payload, qrImage)
    [] p = "banner" -> BannerDrawAfter(payload, qrImage)
    [] p = "logo" -> <<>>

\* The entry stored for template i once its image is exported.
ResultOf(p, s, i, png) ==
  IF p = "poster"
    THEN [id |-> s.templates[i].id, name |-> s.templates[i].name,
          description |-> s.templates[i].description, url |-> png]
    ELSE [id |-> p, name |-> p, description |-> "", url |-> png]

(* ------------------------------------------------------------------ *)
(* Initial state: the useState defaults of the mounted page           *)
(* ------------------------------------------------------------------ *)
NoOutcome == [kind |-> "none", step |-> "", gen |-> 0]
NoMemo == [set |-> FALSE, snap |-> NoSnap, result |-> <<>>]

Init ==
  /\ page \in Pages
  /\ form = InitialForm(page)
  /\ logoUrl = NoUrl
  /\ revoked = {}
  /\ uploads = 0
  /\ stored = <<>>
  /\ loading = FALSE
  /\ error = ""
  /\ runs = <<>>
  /\ storedGen = 0
  /\ outcome = NoOutcome
  /\ memo = NoMemo
  /\ downloads = <<>>
  /\ edits = 0

(* ------------------------------------------------------------------ *)
(* Form handlers                                                      *)
(* ------------------------------------------------------------------ *)
\* onChange / onValueChange of a field: setX(event.target.value)
EditField(f, v) ==
  /\ edits < MaxEdits
  /\ f \in DOMAIN form
  /\ v \in EditValues(page, f)
  /\ v # form[f]
  /\ form' = [form EXCEPT ![f] = v]
  /\ edits' = edits + 1
  /\ UNCHANGED <<page, logoUrl, revoked, uploads, stored, loading, error, runs,
                 storedGen, outcome, memo, downloads>>

handleLogoChange ==
  /\ page = "poster"
  /\ edits < MaxEdits
  /\ uploads < MaxUploads
  /\ LET objectUrl == BlobUrl(uploads + 1)
     IN /\ revoked' = IF logoUrl # NoUrl THEN revoked \cup {logoUrl} ELSE revoked
        /\ logoUrl' = objectUrl
  /\ uploads' = uploads + 1
  /\ edits' = edits + 1
  /\ UNCHANGED <<page, form, stored, loading, error, runs, storedGen, outcome,
                 memo, downloads>>

handleLogoClear ==
  /\ page = "poster"
  /\ logoUrl # NoUrl
  /\ revoked' = revoked \cup {logoUrl}
  /\ logoUrl' = NoUrl
  /\ UNCHANGED <<page, form, uploads, edits, stored, loading, error, runs, storedGen,
                 outcome, memo, downloads>>

(* ------------------------------------------------------------------ *)
(* handleSubmit                                                       *)
(* ------------------------------------------------------------------ *)
InFlight(g) == runs[g].pc \notin {"resolved", "rejected"}

\* The submit button is rendered with disabled={loading}.
SubmitEnabledAlways == TRUE

SubmitEnabled == ~loading

NewRun(s) == [pc |-> "fontsReady", snap |-> s, logoFetch |-> "none",
              logoImage |-> NoImage, tasks |-> NoTasks, finished |-> <<>>]

\* templates.map(...) / the single create call: every task starts.
StartTasks(r) ==
  [r EXCEPT !.pc = "tasks", !.tasks = [i \in 1..TaskCount(page) |-> NewTask(page)]]

\* The handler after the font block, run with scope s: the poster page first
\* loads the logo when one is set.
AfterFontsNoLogo(r, s) == StartTasks(r)

AfterFonts(r, s) ==
  IF page = "poster" /\ s.logoUrl # NoUrl
    THEN [r EXCEPT !.pc = "logo",
                   !.logoFetch = IF s.logoUrl \in revoked THEN "dead" ELSE "live"]
    ELSE StartTasks(r)

\* setPosters([]) / setCardUrl(null) / setBannerUrl(null) / setLogoUrl(null)
KeptImage == stored

ClearedImage == <<>>

\* handleSubmit up to its first await.  fontsApi: document.fonts?.ready exists.
handleSubmit(fontsApi) ==
  /\ SubmitEnabled
  /\ gen < MaxGen
  /\ LET s == Render(page, form, logoUrl)
     IN IF UrlMissing(page, form)
          THEN /\ error' = ValidationError(page)
               /\ outcome' = [kind |-> "invalid", step |-> "", gen |-> gen]
               /\ UNCHANGED <<loading, stored, runs>>
          ELSE /\ error' = ""
               /\ loading' = TRUE
               /\ stored' = ClearedImage
               /\ outcome' = [kind |-> "started", step |-> "", gen |-> gen + 1]
               /\ runs' = Append(runs, IF fontsApi THEN NewRun(s)
                                       ELSE AfterFonts(NewRun(s), s))
  /\ UNCHANGED <<page, formVars, storedGen, memo, downloads>>

\* What catch and finally leave behind when step `step` threw.
SettleFailureUncaught(step) ==
  IF step = "export"
    THEN [error |-> error, loading |-> loading]
    ELSE [error |-> GenerationError(page), loading |-> FALSE]

SettleFailure(step) == [error |-> GenerationError(page), loading |-> FALSE]

\* A task whose handler already returned.  While it still awaits something it
\* is detached: it runs on, and whatever it produces is discarded.
Dropped == [NewTask(page) EXCEPT !.pc = "dropped"]
Detached == [NewTask(page) EXCEPT !.pc = "detached"]

\* The run record once its handler returned (to: "resolved" after the last
\* statement of try, "rejected" through catch): its locals are dead; tasks
\* still pending keep running detached.  A resolved run remembers which task
\* finished first.
Settled(r, to) ==
  [r EXCEPT !.pc = to, !.logoImage = NoImage,
            !.finished = IF to = "resolved" THEN SubSeq(r.finished, 1, 1) ELSE <<>>,
            !.tasks = [i \in DOMAIN r.tasks |->
                         IF r.tasks[i].pc \in {"qr", "img"} THEN Detached ELSE Dropped]]

\* The awaited promise of handler g rejected at `step`; r is the run record
\* at that moment.  Tasks still pending keep running detached.
Reject(g, r, step) ==
  /\ runs' = [runs EXCEPT ![g] = Settled(r, "rejected")]
  /\ error' = SettleFailure(step).error
  /\ loading' = SettleFailure(step).loading
  /\ outcome' = [kind |-> "failed", step |-> step, gen |-> g]
  /\ UNCHANGED <<stored, storedGen, memo>>

\* Promise.all: the results in the order of the templates.
CollectResultsByCompletion(g, r) ==
  [k \in 1..Len(r.finished) |->
     ResultOf(page, HandlerScope(g), r.finished[k], r.tasks[r.finished[k]].out)]

CollectResults(g, r) ==
  [i \in 1..TaskCount(page) |-> ResultOf(page, HandlerScope(g), i, r.tasks[i].out)]

\* Every awaited task of handler g fulfilled: setPosters / setCardUrl / ...
Resolve(g, r) ==
  /\ runs' = [runs EXCEPT ![g] = Settled(r, "resolved")]
  /\ stored' = CollectResults(g, r)
  /\ loading' = FALSE
  /\ storedGen' = g
  /\ outcome' = [kind |-> "ok", step |-> "", gen |-> g]
  /\ memo' = IF memo.set THEN memo
             ELSE [set |-> TRUE, snap |-> r.snap, result |-> CollectResults(g, r)]
  /\ UNCHANGED error

Quiet == UNCHANGED <<stored, loading, error, storedGen, outcome, memo>>

\* await document.fonts.ready
FontsReady(g) ==
  /\ g \in 1..gen
  /\ runs[g].pc = "fontsReady"
  /\ runs' = [runs EXCEPT ![g].pc = "fontsLoad"]
  /\ Quiet
  /\ UNCHANGED <<page, formVars, downloads>>

\* await Promise.all([document.fonts.load(...), document.fonts.load(...)])
FontsLoaded(g, ok) ==
  /\ g \in 1..gen
  /\ runs[g].pc = "fontsLoad"
  /\ IF ok
       THEN /\ runs' = [runs EXCEPT ![g] = AfterFonts(runs[g], HandlerScope(g))]
            /\ Quiet
       ELSE Reject(g, runs[g], "fonts")
  /\ UNCHANGED <<page, formVars, downloads>>

\* await loadImage(logoUrl): a revoked object URL cannot load.
LogoSettled(g, ok) ==
  /\ g \in 1..gen
  /\ runs[g].pc = "logo"
  /\ ok => runs[g].logoFetch = "live"
  /\ IF ok
       THEN /\ runs' = [runs EXCEPT ![g] =
                          StartTasks([runs[g] EXCEPT
                                        !.logoImage = Image(HandlerScope(g).logoUrl)])]
            /\ Quiet
       ELSE Reject(g, runs[g], "logo")
  /\ UNCHANGED <<page, formVars, downloads>>

(* ------------------------------------------------------------------ *)
(* The per-image tasks                                                *)
(* ------------------------------------------------------------------ *)
TaskAt(g, i, at) ==
  /\ g \in 1..gen
  /\ runs[g].pc = "tasks"
  /\ i \in DOMAIN runs[g].tasks
  /\ runs[g].tasks[i].pc = at

AllDone(r) == \A i \in DOMAIN r.tasks : r.tasks[i].pc = "done"

\* Task i of handler g reached `task`; failedAt is "" unless it threw.
TaskSettles(g, i, task, failedAt) ==
  LET r == runs[g]
      r2 == [r EXCEPT !.tasks[i] = task,
                      !.finished = IF task.pc = "done"
                                     THEN Append(r.finished, i) ELSE r.finished]
  IN IF failedAt # ""
       THEN Reject(g, r2, failedAt)
       ELSE IF AllDone(r2)
         THEN Resolve(g, r2)
         ELSE runs' = [runs EXCEPT ![g] = r2] /\ Quiet

\* await toDataURL(trimmedUrl, options) settles; on success create* runs up
\* to its await of loadImage(qrDataUrl).
TaskQrSettled(g, i, result) ==
  /\ TaskAt(g, i, "qr")
  /\ LET s == HandlerScope(g)
         o == QrOptions(page, s, i)
         qrDataUrl == QrEncode(TrimmedUrl(page, s), o.width, o.margin, o.dark, o.light)
         payload == Payload(page, s, i, qrDataUrl, runs[g].logoImage)
         canvas == [NewCanvas(page) EXCEPT !.ops = DrawBefore(page, payload)]
         t == runs[g].tasks[i]
     IN IF result = "ok"
          THEN TaskSettles(g, i, [t EXCEPT !.pc = "img", !.qr = qrDataUrl,
                                           !.payload = payload, !.canvas = canvas], "")
          ELSE IF result = "ctx"
            THEN TaskSettles(g, i, [t EXCEPT !.pc = "failed", !.qr = qrDataUrl,
                                             !.payload = payload,
                                             !.canvas = NewCanvas(page)], "ctx")
            ELSE TaskSettles(g, i, [t EXCEPT !.pc = "failed"], "qr")
  /\ UNCHANGED <<page, formVars, downloads>>

\* await loadImage(qrDataUrl) settles; on success the QR and the captions are
\* drawn and the canvas is exported.
TaskImageSettled(g, i, result) ==
  /\ TaskAt(g, i, "img")
  /\ LET t == runs[g].tasks[i]
         qrImage == Image(t.qr)
         canvas == [t.canvas EXCEPT !.ops = t.canvas.ops \o DrawAfter(page, t.payload, qrImage)]
     IN IF result = "ok"
          THEN TaskSettles(g, i, [t EXCEPT !.pc = "done", !.canvas = NoCanvas,
                                           !.out = PngOf(canvas)], "")
          ELSE IF result = "export"
            THEN TaskSettles(g, i, [t EXCEPT !.pc = "failed", !.canvas = canvas], "export")
            ELSE TaskSettles(g, i, [t EXCEPT !.pc = "failed"], "image")
  /\ UNCHANGED <<page, formVars, downloads>>

\* await createLogo(payload): no QR, no image load.
TaskLogoCreated(g, result) ==
  /\ page = "logo"
  /\ TaskAt(g, 1, "create")
  /\ LET s == HandlerScope(g)
         payload == Payload(page, s, 1, NoQr, NoImage)
         canvas == [NewCanvas(page) EXCEPT !.ops = DrawBefore(page, payload)]
         t == runs[g].tasks[1]
     IN IF result = "ok"
          THEN TaskSettles(g, 1, [t EXCEPT !.pc = "done", !.payload = payload,
                                           !.out = PngOf(canvas)], "")
          ELSE IF result = "export"
            THEN TaskSettles(g, 1, [t EXCEPT !.pc = "failed", !.payload = payload,
                                             !.canvas = canvas], "export")
            ELSE TaskSettles(g, 1, [t EXCEPT !.pc = "failed",
                                             !.canvas = NewCanvas(page)], "ctx")
  /\ UNCHANGED <<page, formVars, downloads>>

\* The remaining awaits of a detached task settle, one way or the other:
\* nothing of the page is written.
DetachedTaskSettles(g, i) ==
  /\ g \in 1..gen
  /\ runs[g].pc = "rejected"
  /\ i \in DOMAIN runs[g].tasks
  /\ runs[g].tasks[i].pc = "detached"
  /\ runs' = [runs EXCEPT ![g].tasks[i] = Dropped]
  /\ Quiet
  /\ UNCHANGED <<page, formVars, downloads>>

(* ------------------------------------------------------------------ *)
(* handleDownload                                                     *)
(* ------------------------------------------------------------------ *)
\* name.replace(/\s+/g, "-").toLowerCase()
RECURSIVE FileSafeName(_)
FileSafeName(name) ==
  IF name = "" THEN ""
  ELSE IF CharAt(name, 1) \in WhiteSpace
    THEN "-" \o FileSafeName(TrimStart(name))
    ELSE LowerChar(CharAt(name, 1)) \o FileSafeName(SubSeq(name, 2, Len(name)))

DownloadName(p, result) ==
  CASE p = "poster" -> FileSafeName(result.name) \o ".png"
    [] p = "card" -> "business-card.png"
    [] p = "banner" -> "banner.png"
    [] p = "logo" -> "logo.png"

\* A download control exists per stored poster when not loading (poster page)
\* or when an image is stored (other pages).
DownloadControls ==
  IF page = "poster"
    THEN IF loading THEN {} ELSE DOMAIN stored
    ELSE DOMAIN stored

\* if (!cardUrl) return;  (card, banner and logo pages)
DownloadReturnsEarly == page # "poster" /\ stored = <<>>

\* The anchor element the handler builds and clicks.
DownloadLinkStale(p, result) ==
  [href |-> memo.result[1].url, download |-> DownloadName(p, result)]

DownloadLink(p, result) ==
  [href |-> result.url, download |-> DownloadName(p, result)]

handleDownload(i) ==
  /\ Len(downloads) < MaxDownloads
  /\ i \in DownloadControls
  /\ downloads' = IF DownloadReturnsEarly THEN downloads
                  ELSE Append(downloads, DownloadLink(page, stored[i]))
  /\ UNCHANGED <<page, formVars, stored, loading, error, runs, storedGen, outcome, memo>>

(* ------------------------------------------------------------------ *)
(* Specification                                                      *)
(* ------------------------------------------------------------------ *)
Fields == {"url", "website", "brandName", "tagline", "fullName", "role", "email",
           "phone", "headline", "subheadline", "cta", "primaryColor",
           "accentColor", "size", "layout", "tone"}

Next ==
  \/ \E f \in Fields : \E v \in EditValues(page, f) : EditField(f, v)
  \/ handleLogoChange
  \/ handleLogoClear
  \/ \E fontsApi \in BOOLEAN : handleSubmit(fontsApi)
  \/ \E g \in 1..MaxGen : FontsReady(g)
  \/ \E g \in 1..MaxGen : \E ok \in BOOLEAN : FontsLoaded(g, ok)
  \/ \E g \in 1..MaxGen : \E ok \in BOOLEAN : LogoSettled(g, ok)
  \/ \E g \in 1..MaxGen : \E i \in 1..3 : \E result \in {"ok", "qr", "ctx"} :
       TaskQrSettled(g, i, result)
  \/ \E g \in 1..MaxGen : \E i \in 1..3 : \E result \in {"ok", "image", "export"} :
       TaskImageSettled(g, i, result)
  \/ \E g \in 1..MaxGen : \E result \in {"ok", "ctx", "export"} : TaskLogoCreated(g, result)
  \/ \E g \in 1..MaxGen : \E i \in 1..3 : DetachedTaskSettles(g, i)
  \/ \E i \in 1..3 : handleDownload(i)

Spec == Init /\ [][Next]_vars

\* An awaited step of a running handler settles: rejected, or fulfilled.
AwaitSettles ==
  \/ \E g \in 1..MaxGen : FontsReady(g)
  \/ \E g \in 1..MaxGen : FontsLoaded(g, FALSE)
  \/ \E g \in 1..MaxGen : LogoSettled(g, FALSE)
  \/ \E g \in 1..MaxGen : \E i \in 1..3 : TaskQrSettled(g, i, "qr")
  \/ \E g \in 1..MaxGen : \E i \in 1..3 : TaskImageSettled(g, i, "image")
  \/ \E g \in 1..MaxGen : TaskLogoCreated(g, "ctx")
  \/ \E g \in 1..MaxGen : FontsLoaded(g, TRUE)
  \/ \E g \in 1..MaxGen : LogoSettled(g, TRUE)
  \/ \E g \in 1..MaxGen : \E i \in 1..3 : \E result \in {"ok", "ctx"} :
       TaskQrSettled(g, i, result)
  \/ \E g \in 1..MaxGen : \E i \in 1..3 : \E result \in {"ok", "export"} :
       TaskImageSettled(g, i, result)
  \/ \E g \in 1..MaxGen : \E result \in {"ok", "export"} : TaskLogoCreated(g, result)

\* A page whose URL field holds a URL: the poster page after one is typed,
\* the other pages as mounted.
FairInit ==
  /\ page \in Pages
  /\ form = IF page = "poster"
              THEN [InitialForm(page) EXCEPT !.url = " https://a.io\t"]
              ELSE InitialForm(page)
  /\ logoUrl = NoUrl
  /\ revoked = {}
  /\ uploads = 0
  /\ stored = <<>>
  /\ loading = FALSE
  /\ error = ""
  /\ runs = <<>>
  /\ storedGen = 0
  /\ outcome = NoOutcome
  /\ memo = NoMemo
  /\ downloads = <<>>
  /\ edits = 0

\* Submits, logo uploads and removals, downloads and the awaited steps.
FairNext ==
  \/ handleLogoChange
  \/ handleLogoClear
  \/ \E fontsApi \in BOOLEAN : handleSubmit(fontsApi)
  \/ AwaitSettles
  \/ \E g \in 1..MaxGen : \E i \in 1..3 : DetachedTaskSettles(g, i)
  \/ \E i \in 1..3 : handleDownload(i)

\* The page when every awaited promise eventually settles.
FairSpec == FairInit /\ [][FairNext]_vars /\ WF_vars(AwaitSettles)

(* ------------------------------------------------------------------ *)
(* The poster generation for any value of the size state               *)
(* ------------------------------------------------------------------ *)
\* Values of the size state: the four options and strings outside them.
SizeInputs == {"220", "260", "300", "340", "", "auto", "0", "100", "199",
               "225", "361", "999", "-5", " 300 "}

SizeInit ==
  /\ page = "poster"
  /\ \E sz \in SizeInputs :
       form = [InitialForm("poster") EXCEPT !.url = "https://a.io", !.size = sz]
  /\ logoUrl = NoUrl
  /\ revoked = {}
  /\ uploads = 0
  /\ stored = <<>>
  /\ loading = FALSE
  /\ error = ""
  /\ runs = <<>>
  /\ storedGen = 0
  /\ outcome = NoOutcome
  /\ memo = NoMemo
  /\ downloads = <<>>
  /\ edits = 0

SizeNext ==
  \/ \E fontsApi \in BOOLEAN : handleSubmit(fontsApi)
  \/ \E g \in 1..MaxGen : FontsReady(g)
  \/ \E g \in 1..MaxGen : \E ok \in BOOLEAN : FontsLoaded(g, ok)
  \/ \E g \in 1..MaxGen : \E i \in 1..3 : \E result \in {"ok", "qr", "ctx"} :
       TaskQrSettled(g, i, result)
  \/ \E g \in 1..MaxGen : \E i \in 1..3 : \E result \in {"ok", "image", "export"} :
       TaskImageSettled(g, i, result)
  \/ \E g \in 1..MaxGen : \E i \in 1..3 : DetachedTaskSettles(g, i)

SizeSpec == SizeInit /\ [][SizeNext]_vars

TypeOK ==
  /\ page \in Pages
  /\ loading \in BOOLEAN
  /\ gen <= MaxGen
  /\ Len(stored) \in {0, TaskCount(page)}

(* ------------------------------------------------------------------ *)
(* Reading a stored image                                             *)
(* ------------------------------------------------------------------ *)
IsQrDraw(o) == o[1] = "drawImage" /\ o[2][2][1] = "qr"
IsLogoDraw(o) == o[1] = "drawImage" /\ o[2][2][1] = "blob"
QrDraws(ops) == SelectSeq(ops, IsQrDraw)
LogoDraws(ops) == SelectSeq(ops, IsLogoDraw)
QrDrawIndex(ops) == CHOOSE k \in 1..Len(ops) : IsQrDraw(ops[k])

\* The texts drawn with fillText at position (x, y).
TextsAt(ops, x, y) ==
  LET At(o) == o[1] = "fillText" /\ o[3] = x /\ o[4] = y
  IN SelectSeq(ops, At)

\* The closure state of the generation that wrote `stored`.
StoredScope == runs[storedGen].snap

(* ------------------------------------------------------------------ *)
(* Claims                                                             *)
(* ------------------------------------------------------------------ *)

\* C1 (as stated): on all four pages every stored image embeds a QR bitmap
\* that was encoded before it was drawn.
C1_EveryPageEmbedsQr ==
  \A i \in DOMAIN stored : QrDraws(stored[i].url.ops) # <<>>

\* C1 (amended): on the poster, business-card and banner pages every stored
\* image embeds exactly one QR bitmap, the one the encoder produced for a
\* non-empty text; the logo page encodes no QR and its stored image embeds none.
C1_QrEmbeddedExceptLogo ==
  \A i \in DOMAIN stored :
    LET ops == stored[i].url.ops
    IN IF HasUrl(page)
         THEN /\ Len(QrDraws(ops)) = 1
              /\ QrText(QrDraws(ops)[1][2][2]) # ""
         ELSE QrDraws(ops) = <<>>

C1_Witness == stored # <<>> /\ page = "card"

C1_LogoWitness == stored # <<>> /\ page = "logo"

\* C2: whichever step of a started generation failed, the handler leaves the
\* page's fixed generation-error message, loading false and nothing stored.
C2_SingleCatchAll ==
  outcome.kind = "failed" =>
    /\ error = GenerationError(page)
    /\ loading = FALSE
    /\ stored = <<>>

C2_Witness == outcome.kind = "failed" /\ outcome.step = "export" /\ page = "poster"

\* C3: on the poster, card and banner pages a submit with a blank URL sets the
\* validation message and changes nothing else (loading stays false, no run
\* starts, the stored image stays), and no generation ever starts from a
\* blank URL.
C3_BlankUrlRejected ==
  [][ /\ (outcome' # outcome /\ outcome'.kind = "invalid") =>
           /\ HasUrl(page)
           /\ trim(form[UrlField(page)]) = ""
           /\ error' = ValidationError(page)
           /\ loading = FALSE /\ loading' = FALSE
           /\ runs' = runs
           /\ stored' = stored
           /\ form' = form
      /\ (HasUrl(page) /\ Len(runs') > Len(runs)) => trim(form[UrlField(page)]) # ""
    ]_vars

C3_Witness ==
  /\ outcome.kind = "invalid"
  /\ stored # <<>>
  /\ error = ValidationError(page)
  /\ form[UrlField(page)] = " \t "

\* C4: the QR bitmap of a stored poster, card or banner encodes the URL field
\* as captured at submit, trimmed; the URL caption is that same trimmed string,
\* on the poster cut to its first 49 characters plus "..." when longer than 52.
C4_QrEncodesTrimmedUrl ==
  HasUrl(page) =>
    \A i \in DOMAIN stored :
      LET ops == stored[i].url.ops
          q == QrDraws(ops)[1]
          raw == StoredScope.form[UrlField(page)]
          u == trim(raw)
          shown == IF page = "poster" /\ Len(u) > 52
                     THEN SubSeq(u, 1, 49) \o "..." ELSE u
          captions == CASE page = "poster" -> TextsAt(ops, 600, 260 + q[5] + 90 + 50)
                        [] page = "card" -> TextsAt(ops, 160, 400)
                        [] page = "banner" -> TextsAt(ops, 120, 520)
      IN /\ QrText(q[2][2]) = u
         /\ Len(captions) = 1
         /\ captions[1][2] = shown
         /\ Len(shown) <= (IF page = "poster" THEN 52 ELSE Len(u))

C4_Witness ==
  /\ page = "poster"
  /\ stored # <<>>
  /\ StoredScope.form.url = "  " \o LongUrl \o "\n"

\* C5: the poster list holds 0 or 3 entries; 3 entries are gilt, noir, ivory
\* in that order whatever order the tasks finished in; after a failed
\* generation none is stored.
C5_ThreePostersInOrder ==
  page = "poster" =>
    /\ Len(stored) \in {0, 3}
    /\ Len(stored) = 3 => <<stored[1].id, stored[2].id, stored[3].id>> = <<"gilt", "noir", "ivory">>
    /\ Len(stored) = 3 =>
         <<stored[1].name, stored[2].name, stored[3].name>>
           = <<"Gilt Plaque", "Noir Accent", "Ivory Studio">>
    /\ outcome.kind = "failed" => stored = <<>>

C5_Witness ==
  /\ page = "poster"
  /\ Len(stored) = 3
  /\ runs[storedGen].finished = <<3>>

\* C6: the three posters of a generation are drawn from the inputs of one
\* submit: every task's payload and every stored poster carry the trimmed URL,
\* resolved brand name and tagline, QR size, logo image and palette derived
\* from the state that submit captured.
C6_TaskInputs(g, i) ==
  LET s == runs[g].snap
      t == runs[g].tasks[i]
  IN t.payload # NoPayload =>
       /\ t.payload.url = trim(s.form.url)
       /\ t.payload.brandName = OrDefault(s.form.brandName, "Your Brand")
       /\ t.payload.tagline = OrDefault(s.form.tagline, "Scan to connect")
       /\ t.payload.qrSize = ResolveQrSize(s.form.size)
       /\ t.payload.template = s.templates[i]
       /\ t.payload.logoImage = (IF s.logoUrl = NoUrl THEN NoImage ELSE Image(s.logoUrl))
       /\ QrText(t.qr) = trim(s.form.url)
       /\ QrWidth(t.qr) = ResolveQrSize(s.form.size)

C6_StoredInputs ==
  (page = "poster" /\ stored # <<>>) =>
    LET s == StoredScope
        T == buildTemplates(normalizeHex(s.form.primaryColor, DEFAULT_PRIMARY),
                            normalizeHex(s.form.accentColor, DEFAULT_ACCENT))
        size == ResolveQrSize(s.form.size)
    IN \A i \in 1..3 :
         LET ops == stored[i].url.ops
             q == QrDraws(ops)[1]
         IN /\ QrText(q[2][2]) = trim(s.form.url)
            /\ QrWidth(q[2][2]) = size
            /\ q[5] = size /\ q[6] = size
            /\ q[2][2][5] = T[i].palette.qrDark
            /\ TextsAt(ops, 600, 128) = << <<"fillText", OrDefault(s.form.brandName, "Your Brand"), 600, 128>> >>
            /\ TextsAt(ops, 600, 162) = << <<"fillText", OrDefault(s.form.tagline, "Scan to connect"), 600, 162>> >>
            /\ ops[2] = <<"addColorStop", 0, T[i].palette.background>>
            /\ ops[3] = <<"addColorStop", 1, T[i].palette.backgroundAlt>>
            /\ IF s.logoUrl = NoUrl
                 THEN LogoDraws(ops) = <<>>
                 ELSE /\ Len(LogoDraws(ops)) = 1
                      /\ LogoDraws(ops)[1][2] = Image(s.logoUrl)

\* C6: all three posters of a generation, while being drawn and once stored,
\* come from the inputs captured at one submit.
C6_PostersShareInputs ==
  /\ page = "poster" => \A g \in 1..gen : \A i \in DOMAIN runs[g].tasks : C6_TaskInputs(g, i)
  /\ C6_StoredInputs

C6_Witness ==
  /\ page = "poster"
  /\ stored # <<>>
  /\ form.brandName # StoredScope.form.brandName

\* The sizes C7 states: poster 1200x800, card 1050x600, banner 1600x600,
\* logo 1000x600.
C7_Size(p) ==
  CASE p = "poster" -> <<1200, 800>>
    [] p = "card" -> <<1050, 600>>
    [] p = "banner" -> <<1600, 600>>
    [] p = "logo" -> <<1000, 600>>

\* C7: every canvas, exported image and stored image has its page's fixed
\* size, and the card, banner and logo pages advertise that size.
C7_FixedCanvasSize ==
  /\ \A i \in DOMAIN stored :
       <<stored[i].url.width, stored[i].url.height>> = C7_Size(page)
  /\ \A g \in 1..gen : \A i \in DOMAIN runs[g].tasks :
       LET t == runs[g].tasks[i]
       IN /\ t.canvas # NoCanvas => <<t.canvas.width, t.canvas.height>> = C7_Size(page)
          /\ t.out # NoPng => <<t.out.width, t.out.height>> = C7_Size(page)
  /\ page # "poster" => AdvertisedSize(page) = C7_Size(page)

C7_Witness ==
  /\ stored # <<>>
  /\ page = "banner"
  /\ form # InitialForm(page)

\* C8: two generations on a page that captured identical form values store
\* identical images.
C8_Deterministic ==
  (memo.set /\ stored # <<>>
     /\ StoredScope.form = memo.snap.form
     /\ StoredScope.logoUrl = memo.snap.logoUrl)
    => stored = memo.result

C8_Witness ==
  /\ memo.set
  /\ storedGen = 2
  /\ stored # <<>>
  /\ StoredScope.form = memo.snap.form
  /\ StoredScope.logoUrl = memo.snap.logoUrl

\* C9: at most one handleSubmit is between setLoading(true) and its return,
\* loading is true exactly then, and a stored result is the output of the
\* most recently started generation.
C9_NoOverlap ==
  /\ Cardinality({g \in 1..gen : InFlight(g)}) <= 1
  /\ loading <=> (\E g \in 1..gen : InFlight(g))
  /\ \A g \in 1..gen : InFlight(g) => g = gen
  /\ stored # <<>> => storedGen = gen

C9_Witness ==
  /\ gen = 2
  /\ stored # <<>>
  /\ storedGen = 2

\* An exported image of the poster, card or banner page: the one QR bitmap is
\* drawn after its backing card is filled (only the card's stroke in between)
\* and before the export, which is the last and only toDataURL.
C10_ImageOrdered(png) ==
  LET ops == png.ops
      k == QrDrawIndex(ops)
  IN /\ png.type = "image/png"
     /\ Len(QrDraws(ops)) = 1
     /\ \E f \in 1..(k - 1) :
          /\ ops[f] = <<"fill">>
          /\ ops[f - 2] = <<"closePath">>
          /\ \A j \in (f + 1)..(k - 1) : ops[j][1] \in {"lineWidth", "strokeStyle", "stroke"}
     /\ k < Len(ops)
     /\ ops[Len(ops)] = ExportOp
     /\ \A j \in 1..(Len(ops) - 1) : ops[j] # ExportOp

\* The QR is encoded before the canvas exists, the QR is drawn only once its
\* image loaded, and only exported images are stored.
C10_StateOrder ==
  HasUrl(page) =>
    /\ \A g \in 1..gen : \A i \in DOMAIN runs[g].tasks :
         LET t == runs[g].tasks[i]
         IN /\ t.pc = "qr" => (t.qr = NoQr /\ t.canvas = NoCanvas /\ t.out = NoPng)
            /\ t.canvas # NoCanvas => t.qr # NoQr
            /\ t.pc = "img" => (t.out = NoPng /\ QrDraws(t.canvas.ops) = <<>>)
            /\ t.out # NoPng => C10_ImageOrdered(t.out)
    /\ \A i \in DOMAIN stored : C10_ImageOrdered(stored[i].url)

\* A download hands out an image that is stored at that moment.
C10_DownloadAfterStore ==
  downloads' # downloads =>
    \E i \in DOMAIN stored : downloads'[Len(downloads')].href = stored[i].url

\* C10: the order QR encoding, canvas, card fill, QR draw, export, store,
\* download holds in every state and every download step.
C10_FixedOrder == [](C10_StateOrder) /\ [][C10_DownloadAfterStore]_vars

C10_Witness ==
  /\ page = "banner"
  /\ downloads # <<>>
  /\ stored # <<>>
  /\ downloads[1].href = stored[1].url

\* The file name each page gives a download.
C11_FileName(p, i) ==
  CASE p = "poster" -> <<"gilt-plaque.png", "noir-accent.png", "ivory-studio.png">>[i]
    [] p = "card" -> "business-card.png"
    [] p = "banner" -> "banner.png"
    [] p = "logo" -> "logo.png"

\* A step that hands out a download hands out one currently stored image,
\* under the page's file name, and changes nothing else of the page.
C11_DownloadStep ==
  downloads' # downloads =>
    /\ stored # <<>>
    /\ loading = FALSE
    /\ \E i \in DOMAIN stored :
         downloads' = Append(downloads, [href |-> stored[i].url,
                                         download |-> C11_FileName(page, i)])
    /\ UNCHANGED <<loading, error, stored, form, logoUrl>>

\* C11: a download control exists only for a stored image, the handler of the
\* card, banner and logo pages returns at once when nothing is stored, and a
\* download hands out exactly a currently stored image and leaves loading,
\* error, the stored image and every form field unchanged.
C11_DownloadFrame ==
  /\ [](/\ DownloadControls \subseteq DOMAIN stored
        /\ (page # "poster" /\ stored = <<>>) => DownloadReturnsEarly)
  /\ [][C11_DownloadStep]_vars

C11_Witness ==
  /\ page = "poster"
  /\ downloads # <<>>
  /\ downloads[1].download = "noir-accent.png"
  /\ Len(stored) = 3
  /\ storedGen = 2
  /\ downloads[1].href = stored[2].url

\* The backing card of an image: the rounded rectangle whose fill is the last
\* fill before the QR bitmap is drawn, as [left, top, right, bottom].
BackingCard(ops) ==
  LET k == QrDrawIndex(ops)
      f == CHOOSE j \in 1..(k - 1) :
             ops[j] = <<"fill">> /\ \A h \in (j + 1)..(k - 1) : ops[h] # <<"fill">>
  IN [left |-> ops[f - 3][2], top |-> ops[f - 3][3],
      right |-> ops[f - 7][2], bottom |-> ops[f - 7][3]]

\* The QR bitmap of an image is a square inside the backing card, and the
\* backing card is inside the canvas.
C12_QrInsideCard(png) ==
  LET ops == png.ops
      q == ops[QrDrawIndex(ops)]
      c == BackingCard(ops)
  IN /\ q[5] = q[6]
     /\ q[5] > 0
     /\ page # "poster" => q[5] = 200
     /\ page = "poster" => q[5] \in 200..360
     /\ c.left <= q[3] /\ q[3] + q[5] <= c.right
     /\ c.top <= q[4] /\ q[4] + q[6] <= c.bottom
     /\ 0 <= c.left /\ c.right <= png.width
     /\ 0 <= c.top /\ c.bottom <= png.height

\* The poster's QR card holds the QR and fits the canvas for every size the
\* clamp can produce.
C12_PosterGeometryFits ==
  \A n \in 200..360 :
    LET g == PosterCardGeometry(n)
    IN /\ g.cardX >= 0 /\ g.cardX + g.cardWidth <= 1200
       /\ g.cardY >= 0 /\ g.cardY + g.cardHeight <= 800
       /\ g.cardX + 45 + n <= g.cardX + g.cardWidth
       /\ g.cardY + 45 + n <= g.cardY + g.cardHeight

\* C12: on the poster, card and banner pages every exported image draws the
\* QR bitmap as a square (200 on card and banner, the QR size on the poster)
\* inside its backing card, which is inside the canvas; on the poster this
\* holds for the geometry of every size from 200 to 360.
C12_QrSquareInsideCard ==
  /\ HasUrl(page) =>
       /\ \A i \in DOMAIN stored : C12_QrInsideCard(stored[i].url)
       /\ \A g \in 1..gen : \A i \in DOMAIN runs[g].tasks :
            runs[g].tasks[i].out # NoPng => C12_QrInsideCard(runs[g].tasks[i].out)
       /\ page = "poster" =>
            \A i \in DOMAIN stored :
              QrDraws(stored[i].url.ops)[1][5] = ResolveQrSize(StoredScope.form.size)
  /\ C12_PosterGeometryFits

C12_Witness ==
  /\ page = "poster"
  /\ Len(stored) = 3
  /\ StoredScope.form.size = "340"
  /\ QrDraws(stored[3].url.ops)[1][5] = 340

\* The size C13 states for each value of the size state.
C13_SizeUsed ==
  [sz \in SizeInputs |->
     CASE sz \in {"220", "225", "260", "300", "340"} ->
            (CASE sz = "220" -> 220 [] sz = "225" -> 225 [] sz = "260" -> 260
               [] sz = "300" -> 300 [] sz = "340" -> 340)
       [] sz = " 300 " -> 300
       [] sz \in {"", "auto", "0"} -> 260
       [] sz \in {"100", "199", "-5"} -> 200
       [] sz \in {"361", "999"} -> 360]

\* C13: the poster QR size is the selected option, any other value is clamped
\* into [200, 360] with 260 for a non-numeric or zero value, and the encoder
\* width, the drawn bitmap and the card geometry of all three posters use it.
C13_SelectedSizeUsed ==
  page = "poster" =>
    /\ \A g \in 1..gen : \A i \in DOMAIN runs[g].tasks :
         LET t == runs[g].tasks[i]
             n == C13_SizeUsed[runs[g].snap.form.size]
         IN /\ t.qr # NoQr => QrWidth(t.qr) = n
            /\ t.payload # NoPayload => t.payload.qrSize = n
    /\ \A i \in DOMAIN stored :
         LET ops == stored[i].url.ops
             q == QrDraws(ops)[1]
             c == BackingCard(ops)
             n == C13_SizeUsed[StoredScope.form.size]
         IN /\ n \in 200..360
            /\ QrWidth(q[2][2]) = n
            /\ q[5] = n /\ q[6] = n
            /\ c.right - c.left = n + 90
            /\ c.bottom - c.top = n + 90
            /\ c.left = (1200 - (n + 90)) \div 2
            /\ c.top = 260
            /\ q[3] = c.left + 45 /\ q[4] = c.top + 45

C13_Witness ==
  /\ Len(stored) = 3
  /\ StoredScope.form.size = "999"
  /\ QrDraws(stored[2].url.ops)[1][5] = 360

\* The texts an image draws, in drawing order.
Texts(ops) ==
  LET IsText(o) == o[1] = "fillText"
      drawn == SelectSeq(ops, IsText)
  IN [k \in 1..Len(drawn) |-> drawn[k][2]]

\* A field as C14 states it is drawn: trimmed, or its placeholder when blank.
C14_Shown(value, placeholder) == IF trim(value) = "" THEN placeholder ELSE trim(value)

\* The field texts of a stored image are the captured fields with blank ones
\* replaced by their placeholders; a blank logo tagline is not drawn.
C14_FieldTexts(png, f) ==
  LET t == Texts(png.ops)
  IN /\ \A k \in 1..Len(t) : trim(t[k]) # ""
     /\ CASE page = "poster" ->
               SubSeq(t, 1, 2) = << C14_Shown(f.brandName, "Your Brand"),
                                    C14_Shown(f.tagline, "Scan to connect") >>
          [] page = "card" ->
               SubSeq(t, 2, 6) = << C14_Shown(f.brandName, "Your Brand"),
                                    C14_Shown(f.fullName, "Your Name"),
                                    C14_Shown(f.role, "Role"),
                                    C14_Shown(f.email, "hello@yourbrand.com"),
                                    C14_Shown(f.phone, "+1 (555) 555-5555") >>
          [] page = "banner" ->
               SubSeq(t, 1, 4) = << C14_Shown(f.brandName, "Your Brand"),
                                    C14_Shown(f.headline, "Your headline"),
                                    C14_Shown(f.subheadline, "Your banner subheadline"),
                                    C14_Shown(f.cta, "Scan now") >>
          [] page = "logo" ->
               SubSeq(t, 2, Len(t)) =
                 << C14_Shown(f.brandName, "Your Brand") >>
                 \o (IF trim(f.tagline) = "" THEN <<>> ELSE << trim(f.tagline) >>)

\* A submit is rejected only for a blank URL, whatever the other fields hold.
C14_OnlyUrlBlocks ==
  (outcome' # outcome /\ outcome'.kind = "invalid") =>
    (HasUrl(page) /\ trim(form[UrlField(page)]) = "")

\* C14: a blank text field other than the URL never blocks generation and is
\* drawn as its fixed placeholder, never as an empty string; the logo page's
\* blank tagline is passed as the empty string and not drawn.
C14_BlankFieldsUsePlaceholders ==
  /\ [](/\ \A i \in DOMAIN stored : C14_FieldTexts(stored[i].url, StoredScope.form)
        /\ page = "logo" =>
             \A g \in 1..gen : \A i \in DOMAIN runs[g].tasks :
               runs[g].tasks[i].payload # NoPayload =>
                 runs[g].tasks[i].payload.tagline = trim(runs[g].snap.form.tagline))
  /\ [][C14_OnlyUrlBlocks]_vars

C14_Witness ==
  /\ page = "card"
  /\ stored # <<>>
  /\ StoredScope.form.brandName = "  "
  /\ StoredScope.form.phone = "  "

C14_LogoWitness ==
  /\ page = "logo"
  /\ stored # <<>>
  /\ StoredScope.form.tagline = "  "
  /\ Len(Texts(stored[1].url.ops)) = 2

\* The logo draws of one stored poster, given the logo captured at submit.
C15_LogoDrawn(png, logo) ==
  IF logo = NoUrl
    THEN LogoDraws(png.ops) = <<>>
    ELSE /\ Len(LogoDraws(png.ops)) = 1
         /\ LogoDraws(png.ops)[1][2] = <<"image", logo>>

\* C15: the poster logo is optional; a logo image is loaded and drawn exactly
\* when a logo was set at submit, and then the same loaded image is drawn
\* exactly once on each of the three posters.
C15_LogoOptional ==
  page = "poster" =>
    /\ \A g \in 1..gen :
         LET r == runs[g]
         IN /\ r.pc = "logo" => r.snap.logoUrl # NoUrl
            /\ r.snap.logoUrl = NoUrl => (r.logoFetch = "none" /\ r.logoImage = NoImage)
            /\ (r.pc = "tasks" /\ r.snap.logoUrl # NoUrl) =>
                 r.logoImage = <<"image", r.snap.logoUrl>>
            /\ \A i \in DOMAIN r.tasks :
                 r.tasks[i].payload # NoPayload =>
                   r.tasks[i].payload.logoImage = r.logoImage
    /\ \A i \in DOMAIN stored : C15_LogoDrawn(stored[i].url, StoredScope.logoUrl)
    /\ \A i, j \in DOMAIN stored :
         LogoDraws(stored[i].url.ops) = LogoDraws(stored[j].url.ops)

C15_Witness ==
  /\ page = "poster"
  /\ Len(stored) = 3
  /\ StoredScope.logoUrl # NoUrl
  /\ Len(LogoDraws(stored[3].url.ops)) = 1

C15_NoLogoWitness ==
  /\ page = "poster"
  /\ Len(stored) = 3
  /\ StoredScope.logoUrl = NoUrl
  /\ error = ""

\* The layout C16 states for one poster: the QR card ends inside the inner
\* frame, the URL caption sits 50 below the card, and the caption's baseline
\* is at least the footer's 18px text height above the footer's baseline.
C16_LayoutClear(png) ==
  LET ops == png.ops
      c == BackingCard(ops)
      footer == TextsAt(ops, 600, 738)
      caption == TextsAt(ops, 600, c.bottom + 50)
  IN /\ c.bottom < 748
     /\ Len(footer) = 1
     /\ Len(caption) = 1
     /\ c.bottom + 50 + 18 <= 738

\* C16: for every selectable QR size the poster's QR card ends inside the
\* inner frame (y < 748) and the URL caption below it stays at least 18px
\* above the template-name footer line (y = 738).
C16_PosterLayoutClear ==
  page = "poster" => \A i \in DOMAIN stored : C16_LayoutClear(stored[i].url)

\* Posters stored at QR size 340: the caption's baseline is y = 740, below the
\* footer's baseline y = 738.
C16_Witness ==
  /\ page = "poster"
  /\ Len(stored) = 3
  /\ StoredScope.form.size = "340"
  /\ TextsAt(stored[1].url.ops, 600, 740) # <<>>
  /\ TextsAt(stored[1].url.ops, 600, 738) # <<>>

\* loading is true exactly while a handler is between setLoading(true) and
\* its return.
C17_LoadingWhileRunning == loading <=> (\E g \in 1..gen : runs[g].pc \notin {"resolved", "rejected"})

\* C17: when every awaited step eventually settles, every generation that
\* starts eventually ends with loading false, and loading is never left true
\* once the handler has finished.
C17_LoadingEnds ==
  /\ [](C17_LoadingWhileRunning)
  /\ (loading ~> (loading = FALSE /\ outcome.kind \in {"ok", "failed"}))

C17_Witness ==
  /\ page = "poster"
  /\ gen = 2
  /\ loading = FALSE
  /\ outcome = [kind |-> "failed", step |-> "image", gen |-> 2]

\* Nothing is stored while a generation runs or after it failed, a stored
\* image belongs to the latest submit that passed validation, and the
\* generation-error message never stands beside a stored image.
C18_StoredState ==
  /\ loading => stored = <<>>
  /\ outcome.kind \in {"started", "failed"} => stored = <<>>
  /\ stored # <<>> => (storedGen = gen /\ runs[gen].pc = "resolved")
  /\ error = GenerationError(page) => stored = <<>>

\* The step that sets loading to true also empties the stored image, and the
\* step in which a generation fails leaves it empty.
C18_StartClears ==
  /\ (loading = FALSE /\ loading' = TRUE) => (stored' = <<>> /\ error' = "")
  /\ (outcome' # outcome /\ outcome'.kind = "failed") => (stored = <<>> /\ stored' = <<>>)

\* C18: starting a generation clears the stored image in the step that sets
\* loading; nothing is stored while it runs; a failed generation leaves the
\* stored image empty; so after a submit that passed validation the stored
\* image is empty or that submit's output, and a generation-error message
\* never coexists with a stored image.
C18_ClearOnStart == [](C18_StoredState) /\ [][C18_StartClears]_vars

C18_Witness ==
  /\ memo.set
  /\ gen = 2
  /\ outcome = [kind |-> "failed", step |-> "qr", gen |-> 2]
  /\ stored = <<>>
  /\ error = GenerationError(page)

\* The image template i yields when drawn from the captured state s alone.
C19_Image(p, s, i) ==
  LET o == QrOptions(p, s, i)
      qr == IF HasUrl(p)
              THEN QrEncode(trim(s.form[UrlField(p)]), o.width, o.margin, o.dark, o.light)
              ELSE NoQr
      img == IF p = "poster" /\ s.logoUrl # NoUrl THEN Image(s.logoUrl) ELSE NoImage
      payload == Payload(p, s, i, qr, img)
      ops == IF HasUrl(p)
               THEN DrawBefore(p, payload) \o DrawAfter(p, payload, Image(qr))
               ELSE DrawBefore(p, payload)
  IN PngOf([NewCanvas(p) EXCEPT !.ops = ops])

\* Every image a generation exported or stored is the one drawn from the
\* state its submit captured, whatever the form holds now.
C19_FromCapturedState ==
  /\ \A i \in DOMAIN stored :
       stored[i] = ResultOf(page, StoredScope, i, C19_Image(page, StoredScope, i))
  /\ \A g \in 1..gen : \A i \in DOMAIN runs[g].tasks :
       runs[g].tasks[i].out # NoPng =>
         runs[g].tasks[i].out = C19_Image(page, runs[g].snap, i)

\* A submit captures the form as it is and changes no field; no later step
\* changes what a handler captured.
C19_SubmitFrame ==
  /\ Len(runs') > Len(runs) =>
       /\ runs'[Len(runs')].snap.form = form
       /\ runs'[Len(runs')].snap.logoUrl = logoUrl
  /\ outcome' # outcome => (form' = form /\ logoUrl' = logoUrl)
  /\ \A g \in 1..Len(runs) : runs'[g].snap = runs[g].snap

\* C19: editing a field while a generation is in flight does not affect it:
\* the image it stores is a function of the field values captured at submit,
\* and a submit modifies no form field.
C19_EditsInFlightIgnored == [](C19_FromCapturedState) /\ [][C19_SubmitFrame]_vars

C19_Witness ==
  /\ page = "poster"
  /\ loading
  /\ form.tagline # runs[gen].snap.form.tagline
  /\ runs[gen].tasks # NoTasks
  /\ runs[gen].tasks[1].out # NoPng
  /\ runs[gen].tasks[3].pc = "qr"
====
